---- MODULE Spec2Model ----
(***************************************************************************)
(* Beam-tilt estimation of relion (TiltEstimator, ObservationModel):       *)
(* per-micrograph accumulation of tilt/shift sums, their checkpoint files, *)
(* and the parametric fit that merges the checkpoints of every micrograph. *)
(*                                                                         *)
(* A "batch" is one micrograph (one MetaDataTable mdt), a "group" is an    *)
(* optics group id, a "pair" is the (xyAcc, wAcc) images that              *)
(* processMicrograph writes for one (batch, group).                        *)
(***************************************************************************)
EXTENDS Integers, Sequences, FiniteSets, TLC

\* ------------------------------------------------------------------ bounds
MaxBatch == 3       \* micrographs of the run (mdts.size())
MaxPart == 3        \* particles of one micrograph (mdt.numberOfObjects())
MaxThreads == 2     \* largest nr_omp_threads given to init()
MaxCalls == 2       \* calls of processMicrograph per micrograph
MaxStops == 1       \* times the run is killed and resumed
NumGroups == 2      \* rows of the optics table (numberOfOpticsGroups())
NumPix == 2         \* pixels of one accumulator image (sh*s)
MantBits == 3       \* significand width of the scaled-down RFLOAT

Batches == 1..MaxBatch
Groups == 1..NumGroups
Pixels == 1..NumPix
Threads == 0..(MaxThreads - 1)

\* ------------------------------------------------- RFLOAT arithmetic
\* RFLOAT sums (+=, linearCombination with factors 1.0) are IEEE additions:
\* the exact sum rounded to the nearest representable value, ties to even.
\* The model keeps that rounding at a significand of MantBits bits.
Abs(x) == IF x < 0 THEN -x ELSE x

RECURSIVE Pow2(_)
Pow2(n) == IF n = 0 THEN 1 ELSE 2 * Pow2(n - 1)

\* the unit in the last place of a magnitude m >= 0
RECURSIVE UlpOf(_, _)
UlpOf(m, u) == IF m < u * Pow2(MantBits) THEN u ELSE UlpOf(m, 2 * u)

RoundMag(m) ==
    LET u == UlpOf(m, 1)
        q == m \div u
        r == m % u
    IN  IF 2 * r > u \/ (2 * r = u /\ q % 2 = 1) THEN (q + 1) * u ELSE q * u

Fl(x) == IF x < 0 THEN -RoundMag(-x) ELSE RoundMag(x)

FAdd(a, b) == Fl(a + b)

\* ------------------------------------------------------------ images
\* An accumulator is the complex image xyAcc (parts re, im) and the real
\* image wAcc (part w), each a value per pixel.
Parts == {"re", "im", "w"}

ZeroAcc == [f \in Parts |-> [x \in Pixels |-> 0]]

\* Image<T>(sh,s) followed by data.initZeros()
initZeros == ZeroAcc

\* linearCombination(a, c, 1.0, 1.0, a) and operator+= of MultidimArray
AddAccInto(a, c) == [f \in Parts |-> [x \in Pixels |-> FAdd(a[f][x], c[f][x])]]

\* ------------------------------------------------- particles, tables
\* What TiltHelper::updateTiltShift adds for one particle: c*conj(pred)*obs to
\* xyDest and c*c*|pred|^2 to wDest.  A strong particle carries signal at the
\* first pixel only, a weak one at every pixel.
ParticleKinds == {"strong", "weak"}

Contribution(kind) ==
    IF kind = "strong"
    THEN [f \in Parts |-> [x \in Pixels |->
            IF x = 1 THEN (IF f = "im" THEN -8 ELSE 8) ELSE 0]]
    ELSE [f \in Parts |-> [x \in Pixels |->
            IF f = "im" THEN (IF x = 1 THEN 1 ELSE 0) ELSE 1]]

updateTiltShift(acc, kind) == AddAccInto(acc, Contribution(kind))

Particle(og, kind) == [og |-> og, kind |-> kind]

\* optics group ids a particle table may name: the defined ones and two
\* undefined ones
AnyGroupId == 0..(NumGroups + 1)

\* ObservationModel::getOptGroupsPresent: the groups of the table, ascending
RECURSIVE SortedSeq(_)
SortedSeq(S) ==
    IF S = {} THEN <<>>
    ELSE LET m == CHOOSE a \in S : \A c \in S : a <= c
         IN  <<m>> \o SortedSeq(S \ {m})

getOptGroupsPresent(tbl) == SortedSeq({tbl[p].og : p \in 1..Len(tbl)})

\* ObservationModel::findUndefinedOptGroups: groups used by the particles
\* that are no row of the optics table
findUndefinedOptGroups(tbl) == {tbl[p].og : p \in 1..Len(tbl)} \ Groups

\* --------------------------------------- processMicrograph, in memory
groupToIndexFirst(tbl, og) == 0

\* groupToIndex[og]: the position (from 0) of og among the groups present,
\* -1 for a group that is not present
groupToIndex(tbl, og) ==
    LET optGroups == getOptGroupsPresent(tbl)
    IN  IF \E i \in 1..Len(optGroups) : optGroups[i] = og
        THEN (CHOOSE i \in 1..Len(optGroups) : optGroups[i] = og) - 1
        ELSE -1

SlotIndexShared(cc, threadnum, ci) == threadnum + ci

\* the accumulator a worker adds to: xyAcc[cc*threadnum + ci]
SlotIndex(cc, threadnum, ci) == cc * threadnum + ci

\* the worker that owns a slot
SlotOwner(cc, slot) == slot \div cc

\* The per-worker accumulators after the particles 1..p were added, each by
\* the worker sch[p] the schedule gives it to; a worker takes its particles
\* in ascending order.
RECURSIVE LoopResult(_, _, _, _)
LoopResult(tbl, n, sch, p) ==
    LET cc == Len(getOptGroupsPresent(tbl))
    IN  IF p = 0 THEN [i \in 0..(n * cc - 1) |-> initZeros]
        ELSE LET prev == LoopResult(tbl, n, sch, p - 1)
                 slot == SlotIndex(cc, sch[p], groupToIndex(tbl, tbl[p].og))
             IN  [prev EXCEPT ![slot] = updateTiltShift(@, tbl[p].kind)]

ReduceFirstThreadOnly(slots, cc, ci, t) == slots[SlotIndex(cc, 0, ci)]

\* the reduction over threadnum = 0..t of the slots of group index ci,
\* into xyAccSum / wAccSum (zero when constructed)
RECURSIVE ReduceThreads(_, _, _, _)
ReduceThreads(slots, cc, ci, t) ==
    IF t < 0 THEN ZeroAcc
    ELSE AddAccInto(ReduceThreads(slots, cc, ci, t - 1), slots[SlotIndex(cc, t, ci)])

\* the pair processMicrograph computes for the ci-th group present
BatchPair(tbl, n, sch, ci) ==
    LET cc == Len(getOptGroupsPresent(tbl))
    IN  ReduceThreads(LoopResult(tbl, n, sch, Len(tbl)), cc, ci, n - 1)

\* The default schedule of "omp parallel for" without a schedule clause:
\* one contiguous chunk of ceil(pc/n) iterations per thread.
StaticSchedule(pcount, n) ==
    LET chunk == (pcount + n - 1) \div n
    IN  [p \in 1..MaxPart |-> IF p <= pcount THEN (p - 1) \div chunk ELSE 0]

Schedules(n) == [1..MaxPart -> 0..(n - 1)]

\* ------------------------------------------------------- checkpoint files
FilePart == <<"re", "im", "w">>     \* _real.mrc, _imag.mrc of xyAcc; wAcc

\* CtfRefiner::getOutputFilenameRoot: one root per micrograph
getOutputFilenameRoot(b) == b

FileNameNoRoot(b, og, k) == <<1, og, k>>

\* outRoot + "_xyAcc_optics-class_" + og + "_real.mrc" / "_imag.mrc",
\* outRoot + "_wAcc_optics-class_" + og + ".mrc"
FileName(b, og, k) == <<getOutputFilenameRoot(b), og, k>>

FileNames == Batches \X Groups \X (1..3)

ZeroImg == [x \in Pixels |-> 0]
AbsentFile == [st |-> "absent", img |-> ZeroImg]
\* a file that was opened for writing and is not yet closed
OpenedFile == [st |-> "partial", img |-> ZeroImg]

\* Image::write of img over whatever the name held before
FileAfterWrite(prev, img) == [st |-> "complete", img |-> img]

\* ------------------------------------------------------------ the inputs
\* The particle tables of a run, one per micrograph.
MixedData ==
    [b \in Batches |->
        IF b = 1 THEN <<Particle(1, "strong"), Particle(1, "weak")>>
        ELSE IF b = 2 THEN <<Particle(1, "weak"), Particle(2, "weak")>>
        ELSE <<Particle(1, "weak")>>]

SecondGroupOnly ==
    [b \in Batches |->
        IF b = 1
        THEN <<Particle(2, "strong"), Particle(2, "weak"), Particle(2, "weak")>>
        ELSE <<Particle(2, "weak")>>]

UndefinedGroupData ==
    [b \in Batches |->
        IF b = 1 THEN <<Particle(1, "weak"), Particle(NumGroups + 1, "weak")>>
        ELSE IF b = 2 THEN <<Particle(0, "weak")>>
        ELSE <<Particle(1, "weak")>>]

DataSets == {MixedData, SecondGroupOnly, UndefinedGroupData}

NoTables == [b \in Batches |-> <<>>]

\* ------------------------------------------------------------------ state
VARIABLES
    err,            \* "none", or the REPORT_ERROR that ended the program
    loaded,         \* loadSafely has returned
    mdt,            \* the particle table of every micrograph
    ready,          \* TiltEstimator::ready
    nr_omp_threads, \* TiltEstimator::nr_omp_threads
    pc,             \* per micrograph: where its processMicrograph call is
    calls,          \* per micrograph: processMicrograph calls made so far
    store,          \* the files under outPath: name -> state and content
    stops,          \* times the run was killed
    undisciplined,  \* after a kill, a finished micrograph was processed again
    acc,            \* parametricFit: xyAccSum, wAccSum, groupUsed per group
    optOut,         \* the output optics table, one row per group
    fitOrder        \* the mdts given to the last parametricFit, <<>> before it

tiltVars == <<err, loaded, mdt, ready, nr_omp_threads, pc, calls, store,
              stops, undisciplined, acc, optOut, fitOrder>>

\* One processMicrograph call seen worker by worker (specification SpecPar).
VARIABLES
    ptable,         \* mdt of the call, <<>> outside SpecPar
    pn,             \* nr_omp_threads of the call
    psched,         \* the worker (omp_get_thread_num) each particle is run by
    xyAcc,          \* the accumulators xyAcc[i], wAcc[i], i from 0
    pdone,          \* the particles whose loop body has run
    writers,        \* per accumulator: the workers that have added to it
    sums            \* xyAccSum, wAccSum of the groups reduced so far

parVars == <<ptable, pn, psched, xyAcc, pdone, writers, sums>>

\* The fit stage of parametricFit, group by group (specification SpecFit).
VARIABLES
    aberr_n_max,    \* --odd_aberr_max_n
    debug,          \* TiltEstimator::debug
    wgh0,           \* reference->getHollowWeight(kmin_px), per pixel
    ring,           \* the pixels of the exclusion ring, {} when xring1 <= 0
    groupSums,      \* per group: xyAccSum, wAccSum, groupUsed after the merge
    fog,            \* the groups the loop over og has passed
    optRows,        \* the rows of optOut: tilt X/Y, odd Zernike coefficients
    imageLog,       \* the images written by ImageLog::write
    ferr            \* "none", or what ended the fit

fitVars == <<aberr_n_max, debug, wgh0, ring, groupSums, fog, optRows, imageLog, ferr>>

\* The answer of the last isFinished call (specification SpecReady).
VARIABLES
    allDone         \* the micrograph asked about and what isFinished returned

readyVars == <<allDone>>

\* The correction cache of ObservationModel (SpecCache, SpecCacheConc).
VARIABLES
    oddZernikeCoeffs,   \* per optics group: the coefficients behind phaseCorr
    evenZernikeCoeffs,  \* per optics group: the coefficients behind gammaOffset
    phaseCorr,          \* phaseCorr[optGroup][s]: the cached image, or none
    gammaOffset,        \* gammaOffset[optGroup][s]: the cached image, or none
    callers             \* per caller: where its get call is, its key and image

cacheVars == <<oddZernikeCoeffs, evenZernikeCoeffs, phaseCorr, gammaOffset, callers>>

\* The optics table and the particles' group ids (specification SpecSort).
VARIABLES
    opticsIds,      \* opticsMdt: the optics group id of every row
    partOg,         \* partMdt: the optics group id of every particle
    partRow,        \* the opticsMdt row each particle referred to when loaded
    idsBefore       \* the ids of the rows when loaded

sortVars == <<opticsIds, partOg, partRow, idsBefore>>

\* convert_to_tiff, one processOneMovie call (specification SpecTiff).
VARIABLES
    mrc_mode,           \* convert_to_tiff::mrc_mode
    only_do_unfinished, \* --only_do_unfinished
    do_estimate,        \* --estimate_gain
    tiff,               \* the file fn_tiff
    tmp,                \* the file fn_tiff + ".tmp"
    tiffBefore,         \* fn_tiff as it was when the call began
    tpc,                \* where the call is
    terr                \* "none", or what ended the program

tiffVars == <<mrc_mode, only_do_unfinished, do_estimate, tiff, tmp,
              tiffBefore, tpc, terr>>

\* The names of the checkpoint files, as each operation builds them
\* (specification SpecNames).
VARIABLES
    nameTables,   \* per micrograph, the optics groups its particles name
    nameStore,    \* the names of the files that exist
    writtenFor,   \* the (micrograph, group id) whose pair was written
    fitReads,     \* per row of the optics table, the names parametricFit read
    fitSaw,       \* nameStore when parametricFit ran
    tested        \* the last isFinished call: micrograph, names, result

nameVars == <<nameTables, nameStore, writtenFor, fitReads, fitSaw, tested>>

\* parametricFit invoked again and again (specification SpecRefit).
VARIABLES
    fitRuns       \* per invocation: the store before and after, the list
                  \* given, the merged sums and the rows it left

refitVars == <<fitRuns>>

\* convert_to_tiff::estimate, one pixel (specification SpecGain).
VARIABLES
    gain,         \* gain() at the pixel
    defects,      \* defects() at the pixel, a short
    steady        \* the pixel became reliable and every non-zero observation
                  \* since was consistent with the unchanged gain

gainVars == <<gain, defects, steady>>

\* everything but the estimator's own state, the loop state and fitRuns
besideRefitVars == <<fitVars, readyVars, cacheVars, sortVars, tiffVars, nameVars,
                     gainVars>>

restVars == <<fitVars, readyVars, cacheVars, sortVars, tiffVars, nameVars,
              refitVars, gainVars>>

\* what the steps of one specification leave alone
notFitVars == <<tiltVars, parVars, readyVars, cacheVars, sortVars, tiffVars, nameVars,
                 refitVars, gainVars>>
notReadyVars == <<parVars, fitVars, cacheVars, sortVars, tiffVars, nameVars,
                 refitVars, gainVars>>
notCacheVars == <<tiltVars, parVars, fitVars, readyVars, sortVars, tiffVars, nameVars,
                 refitVars, gainVars>>
notSortVars == <<tiltVars, parVars, fitVars, readyVars, cacheVars, tiffVars, nameVars,
                 refitVars, gainVars>>
notTiffVars == <<tiltVars, parVars, fitVars, readyVars, cacheVars, sortVars,
                 nameVars, refitVars, gainVars>>
notNameVars == <<tiltVars, parVars, fitVars, readyVars, cacheVars, sortVars,
                 tiffVars, refitVars, gainVars>>
notGainVars == <<tiltVars, parVars, fitVars, readyVars, cacheVars, sortVars,
                 tiffVars, nameVars, refitVars>>

vars == <<tiltVars, parVars, restVars>>

Idle == [st |-> "idle", j |-> 0]
Fitted == fitOrder # <<>>
Running(b) == pc[b].st \in {"next", "open"}
NoneRunning == \A b \in Batches : ~Running(b)

UnusedAcc == [sum |-> ZeroAcc, used |-> FALSE, torn |-> FALSE]
UnsetRow == [fitted |-> FALSE, from |-> ZeroAcc]

TiltIdle ==
    /\ err = "none"
    /\ loaded = FALSE
    /\ mdt = NoTables
    /\ ready = FALSE
    /\ nr_omp_threads = 0
    /\ pc = [b \in Batches |-> Idle]
    /\ calls = [b \in Batches |-> 0]
    /\ store = [f \in FileNames |-> AbsentFile]
    /\ stops = 0
    /\ undisciplined = FALSE
    /\ acc = [og \in Groups |-> UnusedAcc]
    /\ optOut = [og \in Groups |-> UnsetRow]
    /\ fitOrder = <<>>

ParIdle ==
    /\ ptable = <<>>
    /\ pn = 0
    /\ psched = <<>>
    /\ xyAcc = <<>>
    /\ pdone = {}
    /\ writers = <<>>
    /\ sums = <<>>

FitIdle ==
    /\ aberr_n_max = 0
    /\ debug = FALSE
    /\ wgh0 = <<>>
    /\ ring = {}
    /\ groupSums = <<>>
    /\ fog = 0
    /\ optRows = <<>>
    /\ imageLog = {}
    /\ ferr = "none"

NotAsked == [b |-> 0, value |-> FALSE]

ReadyIdle == allDone = NotAsked

CacheIdle ==
    /\ oddZernikeCoeffs = <<>>
    /\ evenZernikeCoeffs = <<>>
    /\ phaseCorr = <<>>
    /\ gammaOffset = <<>>
    /\ callers = <<>>

SortIdle ==
    /\ opticsIds = <<>>
    /\ partOg = <<>>
    /\ partRow = <<>>
    /\ idsBefore = <<>>

NoFile == [st |-> "absent", frames |-> 0, by |-> "none"]

TiffIdle ==
    /\ mrc_mode = 2
    /\ only_do_unfinished = FALSE
    /\ do_estimate = FALSE
    /\ tiff = NoFile
    /\ tmp = NoFile
    /\ tiffBefore = NoFile
    /\ tpc = "off"
    /\ terr = "none"

\* no isFinished call yet
NoTest == [b |-> 0, names |-> {}, value |-> FALSE]

NamesIdle ==
    /\ nameTables = <<>>
    /\ nameStore = {}
    /\ writtenFor = {}
    /\ fitReads = <<>>
    /\ fitSaw = {}
    /\ tested = NoTest

RefitIdle == fitRuns = <<>>

GainIdle == gain = 0 /\ defects = 0 /\ steady = FALSE

RestIdle ==
    /\ FitIdle /\ ReadyIdle /\ CacheIdle /\ SortIdle /\ TiffIdle /\ NamesIdle
    /\ RefitIdle /\ GainIdle

Init == TiltIdle /\ ParIdle /\ RestIdle

\* ------------------------------------------------------ loading, init()
LoadAcceptsAll(ds) == FALSE

\* ObservationModel::loadSafely: any particle naming an undefined optics
\* group is a blocking error
LoadRejects(ds) == \E b \in Batches : findUndefinedOptGroups(ds[b]) # {}

loadSafely(ds) ==
    /\ err = "none"
    /\ ~loaded
    /\ IF LoadRejects(ds)
       THEN /\ err' = "undefined_groups"
            /\ UNCHANGED <<loaded, mdt>>
       ELSE /\ loaded' = TRUE
            /\ mdt' = ds
            /\ UNCHANGED err
    /\ UNCHANGED <<ready, nr_omp_threads, pc, calls, store, stops,
                   undisciplined, acc, optOut, fitOrder>>
    /\ UNCHANGED parVars
    /\ UNCHANGED restVars

\* TiltEstimator::init
init(n) ==
    /\ err = "none"
    /\ loaded
    /\ ~ready
    /\ ready' = TRUE
    /\ nr_omp_threads' = n
    /\ UNCHANGED <<err, loaded, mdt, pc, calls, store, stops, undisciplined,
                   acc, optOut, fitOrder>>
    /\ UNCHANGED parVars
    /\ UNCHANGED restVars

AlwaysInitialized == FALSE

\* "if (!ready)" at the head of processMicrograph, parametricFit, isFinished
NotInitialized == ~ready

\* ------------------------------------------------------------- isFinished
exists(name) == store[name].st # "absent"

PairExists(b, og) == \A k \in 1..3 : exists(FileName(b, og, k))

\* TiltEstimator::isFinished (once initialised)
isFinished(b) ==
    LET ogp == getOptGroupsPresent(mdt[b])
    IN  \A i \in 1..Len(ogp) : PairExists(b, ogp[i])

\* ---------------------------------------------- processMicrograph, files
RECURSIVE TimesAcc(_, _)
TimesAcc(a, k) == IF k <= 1 THEN a ELSE AddAccInto(TimesAcc(a, k - 1), a)

PairToWriteCarried(b, ci) ==
    TimesAcc(BatchPair(mdt[b], nr_omp_threads,
                       StaticSchedule(Len(mdt[b]), nr_omp_threads), ci),
             calls[b])

\* xyAccSum, wAccSum of the ci-th group present, as this call computes them
PairToWrite(b, ci) ==
    BatchPair(mdt[b], nr_omp_threads,
              StaticSchedule(Len(mdt[b]), nr_omp_threads), ci)

\* the file the call for b writes as its j-th: three files per group present
GroupIndexOf(j) == (j - 1) \div 3
KindOf(j) == ((j - 1) % 3) + 1
NameOf(b, j) ==
    FileName(b, getOptGroupsPresent(mdt[b])[GroupIndexOf(j) + 1], KindOf(j))
LastFileOneShort(b) == 3 * Len(getOptGroupsPresent(mdt[b])) - 1

LastFile(b) == 3 * Len(getOptGroupsPresent(mdt[b]))

\* The call: the unready check, the parallel loop and the reduction, all in
\* memory; the files follow one at a time.
processMicrograph(b) ==
    /\ err = "none"
    /\ loaded
    /\ ~Fitted
    /\ pc[b].st \in {"idle", "done"}
    /\ calls[b] < MaxCalls
    /\ IF NotInitialized
       THEN /\ err' = "not_initialized"
            /\ UNCHANGED <<pc, calls, undisciplined>>
       ELSE /\ pc' = [pc EXCEPT ![b] = [st |-> "next", j |-> 1]]
            /\ calls' = [calls EXCEPT ![b] = @ + 1]
            /\ undisciplined' = (undisciplined \/ (stops > 0 /\ isFinished(b)))
            /\ UNCHANGED err
    /\ UNCHANGED <<loaded, mdt, ready, nr_omp_threads, store, stops,
                   acc, optOut, fitOrder>>
    /\ UNCHANGED parVars
    /\ UNCHANGED restVars

\* ComplexIO::write / Image::write opens the next file under its final name
WriteOpen(b) ==
    /\ err = "none"
    /\ pc[b].st = "next"
    /\ store' = [store EXCEPT ![NameOf(b, pc[b].j)] = OpenedFile]
    /\ pc' = [pc EXCEPT ![b].st = "open"]
    /\ UNCHANGED <<err, loaded, mdt, ready, nr_omp_threads, calls, stops,
                   undisciplined, acc, optOut, fitOrder>>
    /\ UNCHANGED parVars
    /\ UNCHANGED restVars

\* ... and has written and closed it; after the last file the call returns
WriteClose(b) ==
    /\ err = "none"
    /\ pc[b].st = "open"
    /\ LET j == pc[b].j
           img == PairToWrite(b, GroupIndexOf(j))[FilePart[KindOf(j)]]
       IN  /\ store' = [store EXCEPT ![NameOf(b, j)] = FileAfterWrite(@, img)]
           /\ pc' = [pc EXCEPT ![b] =
                        IF j = LastFile(b) THEN [st |-> "done", j |-> 0]
                        ELSE [st |-> "next", j |-> j + 1]]
    /\ UNCHANGED <<err, loaded, mdt, ready, nr_omp_threads, calls, stops,
                   undisciplined, acc, optOut, fitOrder>>
    /\ UNCHANGED parVars
    /\ UNCHANGED restVars

\* The run is killed: every call in progress ends where it is, the files
\* stay as they are.  The restarted run loads and initialises as before.
Stop ==
    /\ err = "none"
    /\ ready
    /\ ~Fitted
    /\ stops < MaxStops
    /\ stops' = stops + 1
    /\ pc' = [b \in Batches |-> IF Running(b) THEN Idle ELSE pc[b]]
    /\ UNCHANGED <<err, loaded, mdt, ready, nr_omp_threads, calls, store,
                   undisciplined, acc, optOut, fitOrder>>
    /\ UNCHANGED parVars
    /\ UNCHANGED restVars

\* ------------------------------------------------------------ parametricFit
\* wAcc.read, ComplexIO::read of the pair of (b, og)
ReadPair(b, og) ==
    [f \in Parts |->
        store[FileName(b, og, CHOOSE k \in 1..3 : FilePart[k] = f)].img]

PairTorn(b, og) == \E k \in 1..3 : store[FileName(b, og, k)].st = "partial"

MergeStepKeepingLast(prev, b, og) ==
    IF PairExists(b, og)
    THEN [sum |-> ReadPair(b, og), used |-> TRUE,
          torn |-> prev.torn \/ PairTorn(b, og)]
    ELSE prev

\* one turn of the loop over the micrographs: a pair whose three files exist
\* is read and added, any other is passed over
MergeStep(prev, b, og) ==
    IF PairExists(b, og)
    THEN [sum |-> AddAccInto(prev.sum, ReadPair(b, og)), used |-> TRUE,
          torn |-> prev.torn \/ PairTorn(b, og)]
    ELSE prev

MergeStartCarried(og) == acc[og]

\* xyAccSum, wAccSum after initZeros, groupUsed[og] = false
MergeStart(og) == UnusedAcc

\* xyAccSum, wAccSum and groupUsed[og] after the first i micrographs of mdts
RECURSIVE MergeUpTo(_, _, _)
MergeUpTo(mdts, og, i) ==
    IF i = 0 THEN MergeStart(og)
    ELSE MergeStep(MergeUpTo(mdts, og, i - 1), mdts[i], og)

Merge(mdts, og) == MergeUpTo(mdts, og, Len(mdts))

GroupsFittedUntilUnused(used) ==
    {og \in Groups : \A g2 \in 1..og : used[g2]}

\* "if (!groupUsed[og]) continue;": the groups the fit goes on with
GroupsFitted(used) == {og \in Groups : used[og]}

\* the row written for a fitted group: tilt X/Y fitted to the merged sums
FitRow(sum) == [fitted |-> TRUE, from |-> sum]

IdentityOrder == [i \in 1..MaxBatch |-> i]

\* the micrograph lists a caller may pass: every micrograph once, any order
MdtOrders ==
    {o \in [1..MaxBatch -> Batches] : \A i, k \in 1..MaxBatch : o[i] = o[k] => i = k}

\* what parametricFit does to the estimator, the store and optOut
parametricFitBody(mdts) ==
    /\ err = "none"
    /\ loaded
    /\ NoneRunning
    /\ IF NotInitialized
       THEN /\ err' = "not_initialized"
            /\ UNCHANGED <<acc, optOut, fitOrder>>
       ELSE LET merged == [og \in Groups |-> Merge(mdts, og)]
                fitted == GroupsFitted([og \in Groups |-> merged[og].used])
            IN  /\ acc' = merged
                /\ optOut' = [og \in Groups |->
                                IF og \in fitted THEN FitRow(merged[og].sum)
                                ELSE optOut[og]]
                /\ fitOrder' = mdts
                /\ UNCHANGED err
    /\ UNCHANGED <<loaded, mdt, ready, nr_omp_threads, pc, calls, store,
                   stops, undisciplined>>
    /\ UNCHANGED parVars

parametricFit(mdts) ==
    /\ parametricFitBody(mdts)
    /\ UNCHANGED restVars

\* ------------------------------------------------------------ specification
\* one rank works through its micrographs one after another
SequentialRun(b) == NoneRunning /\ processMicrograph(b)

Next ==
    \/ \E ds \in DataSets : loadSafely(ds)
    \/ \E n \in 1..MaxThreads : init(n)
    \/ \E b \in Batches : SequentialRun(b)
    \/ \E b \in Batches : WriteOpen(b)
    \/ \E b \in Batches : WriteClose(b)
    \/ Stop
    \/ \E mdts \in MdtOrders : parametricFit(mdts)

Spec == Init /\ [][Next]_vars

\* ----------------------------------------- micrographs run side by side
\* Several ranks call processMicrograph for different micrographs at the
\* same time, with no lock between them; no kill, no fit.
SpecConcNext ==
    \/ \E ds \in DataSets : loadSafely(ds)
    \/ \E n \in 1..MaxThreads : init(n)
    \/ \E b \in Batches : processMicrograph(b)
    \/ \E b \in Batches : WriteOpen(b)
    \/ \E b \in Batches : WriteClose(b)

SpecConc == Init /\ [][SpecConcNext]_vars

\* ------------------------------- one processMicrograph call, by worker
\* the particle tables of one call: any particles of defined groups
ParTables ==
    UNION {[1..len -> {Particle(og, kind) : og \in Groups, kind \in ParticleKinds}]
            : len \in 1..MaxPart}

ParCC == Len(getOptGroupsPresent(ptable))

ParInit ==
    /\ TiltIdle
    /\ ptable \in ParTables
    /\ pn \in 1..MaxThreads
    /\ psched \in Schedules(pn)
    /\ xyAcc = [i \in 0..(pn * Len(getOptGroupsPresent(ptable)) - 1) |-> initZeros]
    /\ pdone = {}
    /\ writers = [i \in 0..(pn * Len(getOptGroupsPresent(ptable)) - 1) |-> {}]
    /\ sums = <<>>
    /\ RestIdle

\* the particles the schedule gives to worker t that it has not yet run
Pending(t) == {p \in 1..Len(ptable) : psched[p] = t /\ p \notin pdone}

\* worker t runs the loop body for its next particle: the particle's group,
\* ci = groupToIndex[og], updateTiltShift into xyAcc[cc*threadnum + ci]
LoopBody(t) ==
    /\ ptable # <<>>
    /\ Pending(t) # {}
    /\ LET p == CHOOSE q \in Pending(t) : \A r \in Pending(t) : q <= r
           ci == groupToIndex(ptable, ptable[p].og)
           slot == SlotIndex(ParCC, t, ci)
       IN  /\ xyAcc' = [xyAcc EXCEPT ![slot] = updateTiltShift(@, ptable[p].kind)]
           /\ writers' = [writers EXCEPT ![slot] = @ \cup {t}]
           /\ pdone' = pdone \cup {p}
    /\ UNCHANGED <<ptable, pn, psched, sums>>
    /\ UNCHANGED tiltVars
    /\ UNCHANGED restVars

\* after the parallel loop has ended: the reduction for the next group
Reduction ==
    /\ ptable # <<>>
    /\ pdone = 1..Len(ptable)
    /\ Len(sums) < ParCC
    /\ sums' = Append(sums, ReduceThreads(xyAcc, ParCC, Len(sums), pn - 1))
    /\ UNCHANGED <<ptable, pn, psched, xyAcc, pdone, writers>>
    /\ UNCHANGED tiltVars
    /\ UNCHANGED restVars

ParNext ==
    \/ \E t \in Threads : LoopBody(t)
    \/ Reduction

SpecPar == ParInit /\ [][ParNext]_vars

\* ------------------------------------ parametricFit, the fit of a group
MaxDegree == 3
Degrees == 0..MaxDegree

\* "if (aberr_n_max < 3)": the smallest degree fitted with the polynomial model
PolyMinDegree == 3

\* merged sums the fit may be given: weight everywhere; no weight at pixel 1
\* but a complex value there (read from a file of which not all was written);
\* the same with zero there; no weight at any pixel
AccPlain ==
    [re |-> [x \in Pixels |-> IF x = 1 THEN 4 ELSE 2],
     im |-> [x \in Pixels |-> IF x = 1 THEN -2 ELSE 2],
     w  |-> [x \in Pixels |-> 2]]
AccHole ==
    [re |-> [x \in Pixels |-> IF x = 1 THEN 3 ELSE 2],
     im |-> [x \in Pixels |-> IF x = 1 THEN 1 ELSE 2],
     w  |-> [x \in Pixels |-> IF x = 1 THEN 0 ELSE 2]]
AccHoleClean ==
    [re |-> [x \in Pixels |-> IF x = 1 THEN 0 ELSE 2],
     im |-> [x \in Pixels |-> IF x = 1 THEN 0 ELSE 2],
     w  |-> [x \in Pixels |-> IF x = 1 THEN 0 ELSE 2]]
AccNoWeight ==
    [re |-> [x \in Pixels |-> 2],
     im |-> [x \in Pixels |-> IF x = 1 THEN -2 ELSE 0],
     w  |-> [x \in Pixels |-> 0]]
MergedSums == {AccPlain, AccHole, AccHoleClean, AccNoWeight}

\* groupUsed[og] with the sums of the group, or an unused group
GroupSums ==
    {[sum |-> a, used |-> TRUE] : a \in MergedSums}
        \cup {[sum |-> ZeroAcc, used |-> FALSE]}

\* the hollow weights: 1, or 0 below the inner frequency threshold kmin
HollowWeights == [Pixels -> {0, 1}]
\* the exclusion rings: none (xring1 <= 0), or one holding the last pixel
Rings == {{}, {NumPix}}

\* FilterHelper::getPhase: the argument of the complex value, in quadrants
PhaseOf(re, im) ==
    IF im = 0 THEN (IF re >= 0 THEN 0 ELSE 4)
    ELSE IF im > 0 THEN (IF re > 0 THEN 1 ELSE IF re = 0 THEN 2 ELSE 3)
    ELSE (IF re > 0 THEN -1 ELSE IF re = 0 THEN -2 ELSE -3)

getPhase(sum) == [x \in Pixels |-> PhaseOf(sum.re[x], sum.im[x])]

FitWeightHollowOnly(sum, h0, rg) ==
    [x \in Pixels |-> IF x \in rg THEN 0 ELSE h0[x]]

\* wgh: FilterHelper::multiply(wAccSum, wgh0, wgh), then 0 inside the ring
FitWeight(sum, h0, rg) ==
    [x \in Pixels |-> IF x \in rg THEN 0 ELSE sum.w[x] * h0[x]]

\* xyNrm: xyAccSum / wAccSum where wAccSum > 0 (kept as numerator and
\* denominator), Complex(0, 0) elsewhere
ZeroNrm == <<0, 0, 1>>
Normalised(sum) ==
    [x \in Pixels |->
        IF sum.w[x] > 0 THEN <<sum.re[x], sum.im[x], sum.w[x]>> ELSE ZeroNrm]

\* What a weighted fit routine takes from its images: every term of its sums
\* is a pixel's value times the pixel's weight, so a pixel of weight 0 gives
\* nothing.
Seen(data, wgh, zero) ==
    [x \in Pixels |-> IF wgh[x] = 0 THEN <<0, zero>> ELSE <<wgh[x], data[x]>>]

NoValue == [fn |-> "none"]

fitTiltShift(phase, wgh) ==
    [fn |-> "fitTiltShift", data |-> Seen(phase, wgh, 0)]
optimizeTilt(xyNrm, wgh, start) ==
    [fn |-> "optimizeTilt", data |-> Seen(xyNrm, wgh, ZeroNrm), start |-> start]
fitOddZernike(xyNrm, wgh, n) ==
    [fn |-> "fitOddZernike", data |-> Seen(xyNrm, wgh, ZeroNrm), n |-> n]
optimiseOddZernike(xyNrm, wgh, n, start) ==
    [fn |-> "optimiseOddZernike", data |-> Seen(xyNrm, wgh, ZeroNrm), n |-> n,
     start |-> start]
extractTilt(coeffs) == [fn |-> "extractTilt", coeffs |-> coeffs]

\* the system of the fit has no equation: no pixel has weight
SingularSystem(wgh) == \A x \in Pixels : wgh[x] = 0

PlanarModelUpToThree(n) == n <= PolyMinDegree

\* "if (aberr_n_max < 3)"
PlanarModel(n) == n < PolyMinDegree

UnsetFitRow == [tilt |-> NoValue, coeffs |-> NoValue, writes |-> 0]

\* the row of a group after the optOut.setValue calls of its branch
RowAfterFit(row, sum, n, h0, rg) ==
    LET phase == getPhase(sum)
        wgh == FitWeight(sum, h0, rg)
        xyNrm == Normalised(sum)
    IN  IF PlanarModel(n)
        THEN [row EXCEPT
                !.tilt = optimizeTilt(xyNrm, wgh, fitTiltShift(phase, wgh)),
                !.writes = @ + 1]
        ELSE LET Zernike_coeffs == fitOddZernike(xyNrm, wgh, n)
                 Zernike_coeffs_opt ==
                     optimiseOddZernike(xyNrm, wgh, n, Zernike_coeffs)
             IN  [row EXCEPT !.tilt = extractTilt(Zernike_coeffs_opt),
                             !.coeffs = Zernike_coeffs_opt,
                             !.writes = @ + 1]

\* the images ImageLog::write has written when the fit of the group is reached
ImagesBeforeFit(og, dbg) ==
    {<<"per-pixel", og>>} \cup (IF dbg THEN {<<"weight-full", og>>} ELSE {})

\* ... and when the branch of the group has ended
ImagesOfGroup(og, n, dbg) ==
    ImagesBeforeFit(og, dbg) \cup {<<"lin-fit", og>>, <<"iter-fit", og>>}
        \cup (IF dbg /\ ~PlanarModel(n) THEN {<<"residual", og>>} ELSE {})

FitInit ==
    /\ TiltIdle
    /\ ParIdle
    /\ aberr_n_max \in Degrees
    /\ debug \in BOOLEAN
    /\ wgh0 \in HollowWeights
    /\ ring \in Rings
    /\ groupSums \in [Groups -> GroupSums]
    /\ fog = 0
    /\ optRows = [og \in Groups |-> UnsetFitRow]
    /\ imageLog = {}
    /\ ferr = "none"
    /\ ReadyIdle
    /\ CacheIdle
    /\ SortIdle
    /\ TiffIdle
    /\ NamesIdle
    /\ RefitIdle /\ GainIdle

\* One turn of the loop over og, after the merge: an unused group is passed
\* over; for a used group the weights, the images and the fit of its branch.
\* No test of the weights precedes the fit: with no weighted pixel the fit
\* routines work on a singular system, and either end the program or give
\* back what they computed from it.
FitGroup ==
    /\ groupSums # <<>>
    /\ ferr = "none"
    /\ fog < NumGroups
    /\ LET og == fog + 1
           sum == groupSums[og].sum
       IN  IF ~groupSums[og].used
           THEN /\ fog' = og
                /\ UNCHANGED <<optRows, imageLog, ferr>>
           ELSE \/ /\ fog' = og
                   /\ optRows' = [optRows EXCEPT ![og] =
                          RowAfterFit(@, sum, aberr_n_max, wgh0, ring)]
                   /\ imageLog' = imageLog \cup ImagesOfGroup(og, aberr_n_max, debug)
                   /\ UNCHANGED ferr
                \/ /\ SingularSystem(FitWeight(sum, wgh0, ring))
                   /\ ferr' = "singular_system"
                   /\ imageLog' = imageLog \cup ImagesBeforeFit(og, debug)
                   /\ UNCHANGED <<fog, optRows>>
    /\ UNCHANGED <<aberr_n_max, debug, wgh0, ring, groupSums>>
    /\ UNCHANGED notFitVars

FitNext == FitGroup

SpecFit == FitInit /\ [][FitNext]_vars

\* ------------------------------------- calls before and after init()
\* TiltEstimator::isFinished as a call of the program
isFinishedCall(b) ==
    /\ err = "none"
    /\ loaded
    /\ IF NotInitialized
       THEN /\ err' = "not_initialized"
            /\ UNCHANGED allDone
       ELSE /\ allDone' = [b |-> b, value |-> isFinished(b)]
            /\ UNCHANGED err
    /\ UNCHANGED <<loaded, mdt, ready, nr_omp_threads, pc, calls, store, stops,
                   undisciplined, acc, optOut, fitOrder>>
    /\ UNCHANGED notReadyVars

\* The program has ended, by an error or at its end, and is started again:
\* a new TiltEstimator, not initialised; the files are as they were left.
Restart ==
    /\ stops < MaxStops
    /\ NoneRunning
    /\ stops' = stops + 1
    /\ err' = "none"
    /\ loaded' = FALSE
    /\ mdt' = NoTables
    /\ ready' = FALSE
    /\ nr_omp_threads' = 0
    /\ acc' = [og \in Groups |-> UnusedAcc]
    /\ optOut' = [og \in Groups |-> UnsetRow]
    /\ fitOrder' = <<>>
    /\ allDone' = NotAsked
    /\ UNCHANGED <<pc, calls, store, undisciplined>>
    /\ UNCHANGED notReadyVars

ReadyNext ==
    \/ loadSafely(MixedData)
    \/ \E n \in 1..MaxThreads : init(n)
    \/ \E b \in Batches : SequentialRun(b)
    \/ \E b \in Batches : WriteOpen(b)
    \/ \E b \in Batches : WriteClose(b)
    \/ \E b \in Batches : isFinishedCall(b)
    \/ parametricFit(IdentityOrder)
    \/ Restart

SpecReady == Init /\ [][ReadyNext]_vars

\* ------------------------------- ObservationModel, the correction cache
MaxBox == 2         \* image sizes s asked for
MaxCoeff == 1       \* values a group's coefficients take
MaxCallers == 2     \* threads calling the cache at the same time

Boxes == 1..MaxBox
Coeffs == 0..MaxCoeff
Callers == 1..MaxCallers
CacheKinds == {"phase", "gamma"}

NoImage == <<>>
Unfilled == <<0>>

\* the image of a key computed from the group's coefficients c
ComputeImage(kind, g, s, c) == <<kind, g, s, c>>

EmptyCache == [g \in Groups |-> [s \in Boxes |-> NoImage]]

CallerIdle == [st |-> "idle", kind |-> "phase", g |-> 1, s |-> 1,
               img |-> NoImage, computed |-> FALSE]

\* the coefficients and the map a kind of image is taken from
CoeffsOf(kind, g) ==
    IF kind = "phase" THEN oddZernikeCoeffs[g] ELSE evenZernikeCoeffs[g]
CacheOf(kind) == IF kind = "phase" THEN phaseCorr ELSE gammaOffset

LookupRecomputing(entry, fresh) == fresh

\* the cached image if the key is present, else the image computed now
Lookup(entry, fresh) == IF entry # NoImage THEN entry ELSE fresh

CacheInit ==
    /\ TiltIdle /\ ParIdle /\ FitIdle /\ ReadyIdle /\ SortIdle /\ TiffIdle
    /\ NamesIdle
    /\ RefitIdle /\ GainIdle
    /\ oddZernikeCoeffs = [g \in Groups |-> 0]
    /\ evenZernikeCoeffs = [g \in Groups |-> 0]
    /\ phaseCorr = EmptyCache
    /\ gammaOffset = EmptyCache
    /\ callers = [t \in Callers |-> CallerIdle]

\* getPhaseCorrection(optGroup, s), called by one thread at a time
getPhaseCorrection(g, s) ==
    /\ callers # <<>>
    /\ LET img == Lookup(phaseCorr[g][s], ComputeImage("phase", g, s, oddZernikeCoeffs[g]))
       IN  /\ phaseCorr' = [phaseCorr EXCEPT ![g][s] = img]
           /\ callers' = [callers EXCEPT ![1] =
                  [st |-> "returned", kind |-> "phase", g |-> g, s |-> s,
                   img |-> img, computed |-> phaseCorr[g][s] = NoImage]]
    /\ UNCHANGED <<oddZernikeCoeffs, evenZernikeCoeffs, gammaOffset>>
    /\ UNCHANGED notCacheVars

\* getGammaOffset(optGroup, s), called by one thread at a time
getGammaOffset(g, s) ==
    /\ callers # <<>>
    /\ LET img == Lookup(gammaOffset[g][s], ComputeImage("gamma", g, s, evenZernikeCoeffs[g]))
       IN  /\ gammaOffset' = [gammaOffset EXCEPT ![g][s] = img]
           /\ callers' = [callers EXCEPT ![1] =
                  [st |-> "returned", kind |-> "gamma", g |-> g, s |-> s,
                   img |-> img, computed |-> gammaOffset[g][s] = NoImage]]
    /\ UNCHANGED <<oddZernikeCoeffs, evenZernikeCoeffs, phaseCorr>>
    /\ UNCHANGED notCacheVars

\* the program gives a group new coefficients (public members, no call of
\* the cache is involved): the next of the values the model has
SetCoeffs(kind, g) ==
    /\ callers # <<>>
    /\ CoeffsOf(kind, g) < MaxCoeff
    /\ IF kind = "phase"
       THEN /\ oddZernikeCoeffs' = [oddZernikeCoeffs EXCEPT ![g] = @ + 1]
            /\ UNCHANGED evenZernikeCoeffs
       ELSE /\ evenZernikeCoeffs' = [evenZernikeCoeffs EXCEPT ![g] = @ + 1]
            /\ UNCHANGED oddZernikeCoeffs
    /\ UNCHANGED <<phaseCorr, gammaOffset, callers>>
    /\ UNCHANGED notCacheVars

CacheNext ==
    \/ \E g \in Groups, s \in Boxes : getPhaseCorrection(g, s)
    \/ \E g \in Groups, s \in Boxes : getGammaOffset(g, s)
    \/ \E kind \in CacheKinds, g \in Groups : SetCoeffs(kind, g)

SpecCache == CacheInit /\ [][CacheNext]_vars

\* ------------------------------------ the cache called by several threads
\* Each caller looks its key up, computes the image itself when the key is
\* missing, and inserts what it computed; no caller waits for another.
CacheConcInit ==
    /\ TiltIdle /\ ParIdle /\ FitIdle /\ ReadyIdle /\ SortIdle /\ TiffIdle
    /\ NamesIdle
    /\ RefitIdle /\ GainIdle
    /\ oddZernikeCoeffs \in [Groups -> Coeffs]
    /\ evenZernikeCoeffs \in [Groups -> Coeffs]
    /\ phaseCorr = EmptyCache
    /\ gammaOffset = EmptyCache
    /\ callers = [t \in Callers |-> CallerIdle]

\* caller t enters getPhaseCorrection / getGammaOffset for (g, s)
Request(t, kind, g, s) ==
    /\ callers # <<>>
    /\ callers[t].st = "idle"
    /\ callers' = [callers EXCEPT ![t] =
          [st |-> "looking", kind |-> kind, g |-> g, s |-> s,
           img |-> NoImage, computed |-> FALSE]]
    /\ UNCHANGED <<oddZernikeCoeffs, evenZernikeCoeffs, phaseCorr, gammaOffset>>
    /\ UNCHANGED notCacheVars

\* ... finds its key present and returns the entry, or finds it missing
Find(t) ==
    /\ callers # <<>>
    /\ callers[t].st = "looking"
    /\ LET entry == CacheOf(callers[t].kind)[callers[t].g][callers[t].s]
       IN  callers' = [callers EXCEPT ![t] =
              IF entry # NoImage
              THEN [@ EXCEPT !.st = "returned", !.img = entry]
              ELSE [@ EXCEPT !.st = "missing"]]
    /\ UNCHANGED <<oddZernikeCoeffs, evenZernikeCoeffs, phaseCorr, gammaOffset>>
    /\ UNCHANGED notCacheVars

\* ... computes the image from the group's coefficients
Compute(t) ==
    /\ callers # <<>>
    /\ callers[t].st = "missing"
    /\ LET c == callers[t]
       IN  callers' = [callers EXCEPT ![t] =
              [c EXCEPT !.st = "computed", !.computed = TRUE,
                        !.img = ComputeImage(c.kind, c.g, c.s, CoeffsOf(c.kind, c.g))]]
    /\ UNCHANGED <<oddZernikeCoeffs, evenZernikeCoeffs, phaseCorr, gammaOffset>>
    /\ UNCHANGED notCacheVars

EntryAtInsertUnfilled(img) == Unfilled

\* the entry a key has from the moment it is in the map
EntryAtInsert(img) == img

\* ... inserts it under its key and returns the entry
Insert(t) ==
    /\ callers # <<>>
    /\ callers[t].st = "computed"
    /\ LET c == callers[t]
           entry == EntryAtInsert(c.img)
       IN  /\ IF c.kind = "phase"
              THEN /\ phaseCorr' = [phaseCorr EXCEPT ![c.g][c.s] = entry]
                   /\ UNCHANGED gammaOffset
              ELSE /\ gammaOffset' = [gammaOffset EXCEPT ![c.g][c.s] = entry]
                   /\ UNCHANGED phaseCorr
           /\ callers' = [callers EXCEPT ![t] = [c EXCEPT !.st = "returned", !.img = entry]]
    /\ UNCHANGED <<oddZernikeCoeffs, evenZernikeCoeffs>>
    /\ UNCHANGED notCacheVars

CacheConcNext ==
    \/ \E t \in Callers, kind \in CacheKinds, g \in Groups, s \in Boxes :
          Request(t, kind, g, s)
    \/ \E t \in Callers : Find(t)
    \/ \E t \in Callers : Compute(t)
    \/ \E t \in Callers : Insert(t)

SpecCacheConc == CacheConcInit /\ [][CacheConcNext]_vars

\* --------------------------------- ObservationModel::sortOpticsGroups
MaxGroupId == 4     \* largest optics group id of an unsorted optics table

\* the optics tables: NumGroups rows, every row another id
OpticsTables ==
    {t \in [Groups -> 1..MaxGroupId] : \A r, q \in Groups : t[r] = t[q] => r = q}

\* the row of opticsMdt that holds id og, 0 if none does
RowOf(ids, og) ==
    IF \E r \in DOMAIN ids : ids[r] = og
    THEN CHOOSE r \in DOMAIN ids : ids[r] = og
    ELSE 0

\* opticsGroupsSorted(): row r (from 0) holds id r+1
opticsGroupsSorted == \A r \in DOMAIN opticsIds : opticsIds[r] = r

UntranslatedGroup(ids, og) == og

\* old2new[og]: the new id of the group that had id og, its row (from 1)
TranslatedGroup(ids, og) == RowOf(ids, og)

SortInit ==
    /\ TiltIdle /\ ParIdle /\ FitIdle /\ ReadyIdle /\ CacheIdle /\ TiffIdle
    /\ NamesIdle
    /\ RefitIdle /\ GainIdle
    /\ opticsIds \in OpticsTables
    /\ \E len \in 1..MaxPart :
          partOg \in [1..len -> {opticsIds[r] : r \in Groups}]
    /\ partRow = [p \in DOMAIN partOg |-> RowOf(opticsIds, partOg[p])]
    /\ idsBefore = opticsIds

\* sortOpticsGroups(partMdt): the rows get the ids 1..N in storage order and
\* every particle's id is translated by the same map
sortOpticsGroups ==
    /\ opticsIds # <<>>
    /\ ~opticsGroupsSorted
    /\ opticsIds' = [r \in DOMAIN opticsIds |-> r]
    /\ partOg' = [p \in DOMAIN partOg |-> TranslatedGroup(opticsIds, partOg[p])]
    /\ UNCHANGED <<partRow, idsBefore>>
    /\ UNCHANGED notSortVars

SortNext == sortOpticsGroups

SpecSort == SortInit /\ [][SortNext]_vars

\* ------------------------------------ convert_to_tiff::processOneMovie
MaxFrames == 2      \* frames of a movie (nn)

\* the MRC modes of the input: 0, 101 (bytes), 1, 6 (shorts), 2 (floats)
MrcModes == {0, 1, 2, 6, 101}
ShortModes == {1, 6}
ByteModes == {0, 101}

\* a TIFF of an earlier run, complete
EarlierTiff == [st |-> "complete", frames |-> MaxFrames, by |-> "earlier"]
\* what an earlier, aborted unnormalise left under the provisional name
StaleTmp == [st |-> "partial", frames |-> 1, by |-> "earlier"]

\* TIFFOpen(name, "w"): the file is created, or cut to length 0
OpenedBy(who) == [st |-> "partial", frames |-> 0, by |-> who]

\* exists(fn_tiff)
TiffExists == tiff.st # "absent"

TiffInit ==
    /\ TiltIdle /\ ParIdle /\ FitIdle /\ ReadyIdle /\ CacheIdle /\ SortIdle
    /\ NamesIdle
    /\ RefitIdle /\ GainIdle
    /\ mrc_mode \in MrcModes
    /\ only_do_unfinished \in BOOLEAN
    /\ do_estimate \in BOOLEAN
    /\ tiff \in {NoFile, EarlierTiff}
    /\ tmp \in {NoFile, StaleTmp}
    /\ tiffBefore = tiff
    /\ tpc = "start"
    /\ terr = "none"

\* processOneMovie up to the choice of only_compress by the mode (the header
\* of the movie agrees with the first movie's)
processOneMovie ==
    /\ tpc = "start" /\ terr = "none"
    /\ tpc' = IF mrc_mode \in ShortModes \cup ByteModes
              THEN "compress_open" ELSE "after_compress"
    /\ UNCHANGED <<mrc_mode, only_do_unfinished, do_estimate, tiff, tmp,
                   tiffBefore, terr>>
    /\ UNCHANGED notTiffVars

\* only_compress: TIFFOpen(fn_tiff, "w")
CompressOpen ==
    /\ tpc = "compress_open" /\ terr = "none"
    /\ tiff' = OpenedBy("only_compress")
    /\ tpc' = "compress_frames"
    /\ UNCHANGED <<mrc_mode, only_do_unfinished, do_estimate, tmp, tiffBefore, terr>>
    /\ UNCHANGED notTiffVars

\* only_compress: write_tiff_one_page for the next frame
CompressFrame ==
    /\ tpc = "compress_frames" /\ terr = "none"
    /\ tiff.frames < MaxFrames
    /\ tiff' = [tiff EXCEPT !.frames = @ + 1]
    /\ UNCHANGED <<mrc_mode, only_do_unfinished, do_estimate, tmp, tiffBefore,
                   tpc, terr>>
    /\ UNCHANGED notTiffVars

\* only_compress: TIFFClose(tif)
CompressClose ==
    /\ tpc = "compress_frames" /\ terr = "none"
    /\ tiff.frames = MaxFrames
    /\ tiff' = [tiff EXCEPT !.st = "complete"]
    /\ tpc' = "compress_rename"
    /\ UNCHANGED <<mrc_mode, only_do_unfinished, do_estimate, tmp, tiffBefore, terr>>
    /\ UNCHANGED notTiffVars

\* std::rename(fn_tmp, fn_tiff): fn_tmp takes the place of fn_tiff if there
\* is a file fn_tmp, else nothing happens (the result is not looked at)
Renamed == IF tmp.st = "absent" THEN tiff ELSE tmp

\* only_compress: std::rename(fn_tmp, fn_tiff)
CompressRename ==
    /\ tpc = "compress_rename" /\ terr = "none"
    /\ tiff' = Renamed
    /\ tmp' = NoFile
    /\ tpc' = "after_compress"
    /\ UNCHANGED <<mrc_mode, only_do_unfinished, do_estimate, tiffBefore, terr>>
    /\ UNCHANGED notTiffVars

\* "if (only_do_unfinished && exists(fn_tiff)) return;"
SkipsFinished == only_do_unfinished /\ TiffExists

\* after the choice by mode: estimate() and the gain files, or the return for
\* a finished movie, or unnormalise<float> with its TIFFOpen(fn_tmp, "w")
AfterCompress ==
    /\ tpc = "after_compress" /\ terr = "none"
    /\ IF do_estimate
       THEN /\ tpc' = "done"
            /\ UNCHANGED tmp
       ELSE IF SkipsFinished
            THEN /\ tpc' = "done"
                 /\ UNCHANGED tmp
            ELSE /\ tmp' = OpenedBy("unnormalise")
                 /\ tpc' = "unnorm_frames"
    /\ UNCHANGED <<mrc_mode, only_do_unfinished, do_estimate, tiff, tiffBefore, terr>>
    /\ UNCHANGED notTiffVars

\* unnormalise: the next frame is read, divided by the gain and written; a
\* pixel that does not fit the gain ends the program (REPORT_ERROR)
UnnormFrame ==
    /\ tpc = "unnorm_frames" /\ terr = "none"
    /\ tmp.frames < MaxFrames
    /\ \/ /\ tmp' = [tmp EXCEPT !.frames = @ + 1]
          /\ UNCHANGED terr
       \/ /\ terr' = "unexpected_pixel"
          /\ UNCHANGED tmp
    /\ UNCHANGED <<mrc_mode, only_do_unfinished, do_estimate, tiff, tiffBefore, tpc>>
    /\ UNCHANGED notTiffVars

\* unnormalise: TIFFClose(tif)
UnnormClose ==
    /\ tpc = "unnorm_frames" /\ terr = "none"
    /\ tmp.frames = MaxFrames
    /\ tmp' = [tmp EXCEPT !.st = "complete"]
    /\ tpc' = "unnorm_rename"
    /\ UNCHANGED <<mrc_mode, only_do_unfinished, do_estimate, tiff, tiffBefore, terr>>
    /\ UNCHANGED notTiffVars

\* unnormalise: std::rename(fn_tmp, fn_tiff), and the call returns
UnnormRename ==
    /\ tpc = "unnorm_rename" /\ terr = "none"
    /\ tiff' = Renamed
    /\ tmp' = NoFile
    /\ tpc' = "done"
    /\ UNCHANGED <<mrc_mode, only_do_unfinished, do_estimate, tiffBefore, terr>>
    /\ UNCHANGED notTiffVars

TiffNext ==
    \/ processOneMovie
    \/ CompressOpen
    \/ CompressFrame
    \/ CompressClose
    \/ CompressRename
    \/ AfterCompress
    \/ UnnormFrame
    \/ UnnormClose
    \/ UnnormRename

SpecTiff == TiffInit /\ [][TiffNext]_vars

\* ------------------------------------------- the checkpoint file names
MaxOptGroups == 11  \* rows of the optics table, ids 1..MaxOptGroups (sorted)

OptGroupIds == 1..MaxOptGroups
\* og of "for (int og = 0; og < ogc; og++)"
OptRows == 0..(MaxOptGroups - 1)

\* the groups the particles of a micrograph name
PresentSets ==
    {{1}, {1, 2}, {2, MaxOptGroups - 1}, {1, MaxOptGroups},
     {MaxOptGroups - 1, MaxOptGroups}}

DigitChars == <<"0", "1", "2", "3", "4", "5", "6", "7", "8", "9">>

\* "sts << n; sts.str()": the decimal digits of n, first digit first
RECURSIVE Decimal(_)
Decimal(n) ==
    IF n < 10 THEN <<DigitChars[n + 1]>>
    ELSE Decimal(n \div 10) \o <<DigitChars[(n % 10) + 1]>>

\* the text before and after the group number in the three names
NameStem == <<"_xyAcc_optics-class_", "_xyAcc_optics-class_", "_wAcc_optics-class_">>
NameEnd == <<"_real.mrc", "_imag.mrc", ".mrc">>

\* outRoot + stem + number + end
Concat(b, k, number) ==
    <<getOutputFilenameRoot(b), NameStem[k]>> \o number \o <<NameEnd[k]>>

\* processMicrograph: "sts << optGroups[ci]"
WrittenName(b, optGroup, k) == Concat(b, k, Decimal(optGroup))

RowNumberZeroBased(og) == og

\* parametricFit: "sts << og+1"
RowNumber(og) == og + 1

\* parametricFit: the names with cns = sts.str()
ReadName(b, og, k) == Concat(b, k, Decimal(RowNumber(og)))

\* isFinished: "sts << ogp[i]"
TestedName(b, ogpi, k) == Concat(b, k, Decimal(ogpi))

NamesInit ==
    /\ TiltIdle /\ ParIdle /\ FitIdle /\ ReadyIdle /\ CacheIdle /\ SortIdle
    /\ TiffIdle /\ RefitIdle /\ GainIdle
    /\ nameTables \in [Batches -> PresentSets]
    /\ nameStore = {}
    /\ writtenFor = {}
    /\ fitReads = [og \in OptRows |-> {}]
    /\ fitSaw = {}
    /\ tested = NoTest

\* processMicrograph for b: the three files of every group present
NamesWrite(b) ==
    /\ \A g \in nameTables[b] : <<b, g>> \notin writtenFor
    /\ nameStore' = nameStore \cup
                      {WrittenName(b, g, k) : g \in nameTables[b], k \in 1..3}
    /\ writtenFor' = writtenFor \cup {<<b, g>> : g \in nameTables[b]}
    /\ UNCHANGED <<nameTables, fitReads, fitSaw, tested>>
    /\ UNCHANGED notNameVars

\* parametricFit: for every row og and every micrograph the pair is read if
\* its three names exist
NamesFit ==
    /\ fitReads' = [og \in OptRows |->
                      {ReadName(b, og, k) : b \in
                          {c \in Batches : \A j \in 1..3 : ReadName(c, og, j) \in nameStore},
                        k \in 1..3}]
    /\ fitSaw' = nameStore
    /\ UNCHANGED <<nameTables, nameStore, writtenFor, tested>>
    /\ UNCHANGED notNameVars

\* isFinished for b
NamesTest(b) ==
    /\ LET names == {TestedName(b, g, k) : g \in nameTables[b], k \in 1..3}
       IN  tested' = [b |-> b, names |-> names, value |-> names \subseteq nameStore]
    /\ UNCHANGED <<nameTables, nameStore, writtenFor, fitReads, fitSaw>>
    /\ UNCHANGED notNameVars

NamesNext ==
    \/ \E b \in Batches : NamesWrite(b)
    \/ NamesFit
    \/ \E b \in Batches : NamesTest(b)

SpecNames == NamesInit /\ [][NamesNext]_vars

\* ------------------------------------ parametricFit, invoked repeatedly
MaxFits == 2        \* invocations of parametricFit in one run

\* a whole processMicrograph call for b: the pair of every group present is
\* written (the single files are the matter of WriteOpen and WriteClose)
MicrographWritten(b) ==
    /\ err = "none"
    /\ loaded
    /\ ready
    /\ calls[b] = 0
    /\ calls' = [calls EXCEPT ![b] = 1]
    /\ pc' = [pc EXCEPT ![b] = [st |-> "done", j |-> 0]]
    /\ store' = [f \in FileNames |->
                    IF \E j \in 1..LastFile(b) : NameOf(b, j) = f
                    THEN LET j == CHOOSE i \in 1..LastFile(b) : NameOf(b, i) = f
                         IN  FileAfterWrite(store[f],
                                 PairToWrite(b, GroupIndexOf(j))[FilePart[KindOf(j)]])
                    ELSE store[f]]
    /\ UNCHANGED <<err, loaded, mdt, ready, nr_omp_threads, stops,
                   undisciplined, acc, optOut, fitOrder>>
    /\ UNCHANGED parVars
    /\ UNCHANGED restVars

RefitInit == Init

\* one more invocation of parametricFit, by a caller that passes the same
\* optOut again
Refit(mdts) ==
    /\ ready
    /\ Len(fitRuns) < MaxFits
    /\ parametricFitBody(mdts)
    /\ fitRuns' = Append(fitRuns, [before |-> store, after |-> store',
                                   order |-> mdts, acc |-> acc',
                                   optOut |-> optOut'])
    /\ UNCHANGED besideRefitVars

RefitNext ==
    \/ loadSafely(MixedData)
    \/ loadSafely(SecondGroupOnly)
    \/ \E n \in 1..MaxThreads : init(n)
    \/ \E b \in Batches : MicrographWritten(b)
    \/ \E o \in MdtOrders : Refit(o)

SpecRefit == RefitInit /\ [][RefitNext]_vars

\* -------------------------------------------- convert_to_tiff::estimate
MaxObs == 3         \* largest pixel value of a frame

ShortBits == 16     \* Image<short> defects
ThreshReliable == 20    \* --thresh, by default

\* the pixel values of a frame: negative, zero, positive
Observations == (-1)..MaxObs

\* the gain before any estimate (999.9): above every pixel value
GainUnset == MaxObs + 1

\* an int put into a short: "defects()++" on Image<short>
ToShort(n) == ((n + Pow2(ShortBits - 1)) % Pow2(ShortBits)) - Pow2(ShortBits - 1)

\* fabs(gain_here * round(val / gain_here) - val) <= 0.0001
Consistent(val, gain_here) == val % gain_here = 0

\* the counts of a reliability map that an earlier estimate wrote and
\* initialise() reads with --gain
LoadedCounts == {-1, 0, ThreshReliable, Pow2(ShortBits - 1) - 1}

\* initialise(): the gain and the count are set up afresh, or read
GainInit ==
    /\ TiltIdle /\ ParIdle /\ FitIdle /\ ReadyIdle /\ CacheIdle /\ SortIdle
    /\ TiffIdle /\ NamesIdle /\ RefitIdle
    /\ \/ /\ gain = GainUnset
          /\ defects = -1
       \/ /\ gain \in 1..MaxObs
          /\ defects \in LoadedCounts
    /\ steady = (defects >= ThreshReliable)

\* the body of the loop over the pixels of a frame, for this pixel
estimate(val) ==
    /\ IF val = 0
       THEN UNCHANGED <<gain, defects, steady>>
       ELSE IF val < 0
       THEN /\ defects' = -1
            /\ steady' = FALSE
            /\ UNCHANGED gain
       ELSE IF gain > val
       THEN /\ gain' = val
            /\ defects' = 0
            /\ steady' = FALSE
       ELSE IF ~Consistent(val, gain)
       THEN /\ defects' = -1
            /\ steady' = FALSE
            /\ UNCHANGED gain
       ELSE IF defects >= 0
       THEN /\ defects' = ToShort(defects + 1)
            /\ steady' = (steady \/ defects + 1 >= ThreshReliable)
            /\ UNCHANGED gain
       ELSE UNCHANGED <<gain, defects, steady>>
    /\ UNCHANGED notGainVars

GainNext == \E val \in Observations : estimate(val)

SpecGain == GainInit /\ [][GainNext]_vars

\* ================================================================ claims
PresentGroups(b) == {mdt[b][p].og : p \in 1..Len(mdt[b])}

PairAbsent(b, og) == \A k \in 1..3 : store[FileName(b, og, k)].st = "absent"
PairComplete(b, og) == \A k \in 1..3 : store[FileName(b, og, k)].st = "complete"

\* the pair one uninterrupted processMicrograph call leaves for (b, og)
ExpectedPair(b, og) ==
    BatchPair(mdt[b], nr_omp_threads,
              StaticSchedule(Len(mdt[b]), nr_omp_threads),
              groupToIndex(mdt[b], og))

\* C1: at every moment the files under the final names of a (batch, group)
\* are either all absent or a wholly written pair; no partly written pair is
\* ever visible.
C1_PairNeverPartlyVisible ==
    \A b \in Batches, og \in Groups : PairAbsent(b, og) \/ PairComplete(b, og)

\* C2: isFinished(batch) is true exactly when every group present in the
\* batch has a complete pair (all of its files wholly written).
C2_FinishedIffAllPairsComplete ==
    (loaded /\ ready) =>
        \A b \in Batches :
            isFinished(b) <=> (\A og \in PresentGroups(b) : PairComplete(b, og))

\* the merged accumulator of an uninterrupted run over every micrograph
RECURSIVE UninterruptedMerge(_, _, _)
UninterruptedMerge(mdts, og, i) ==
    IF i = 0 THEN ZeroAcc
    ELSE LET prev == UninterruptedMerge(mdts, og, i - 1)
         IN  IF og \in PresentGroups(mdts[i])
             THEN AddAccInto(prev, ExpectedPair(mdts[i], og))
             ELSE prev

\* C3: a run that was killed and resumed by processing only the micrographs
\* that isFinished reports unfinished, followed by parametricFit, merges for
\* every group what an uninterrupted run merges.
C3_ResumedMergeEqualsUninterrupted ==
    (Fitted /\ stops > 0 /\ ~undisciplined /\ (\A b \in Batches : isFinished(b)))
        => \A og \in Groups :
              acc[og].sum = UninterruptedMerge(fitOrder, og, Len(fitOrder))

\* C4: whenever a processMicrograph call has returned, however many calls
\* for the micrograph came before it, the store holds for every group of the
\* micrograph exactly the pair of one call, and nothing for another group.
C4_RerunLeavesThePairOfOneCall ==
    \A b \in Batches :
        pc[b].st = "done" =>
            \A og \in Groups :
                IF og \in PresentGroups(b)
                THEN /\ PairComplete(b, og)
                     /\ ReadPair(b, og) = ExpectedPair(b, og)
                ELSE PairAbsent(b, og)

C4_Witness ==
    \E b \in Batches : pc[b].st = "done" /\ calls[b] >= 2 /\ stops = 0

\* the micrographs whose pair for og exists, in the order of mdts
Contributing(og) == {b \in Batches : PairExists(b, og)}

\* C5 as stated: whatever the order of the micrograph list, the merged sums
\* of every group are those of the list in ascending order.
C5_MergeSameForEveryOrder ==
    Fitted => \A og \in Groups : acc[og].sum = Merge(IdentityOrder, og).sum

RECURSIVE SumOver(_, _, _, _)
SumOver(S, og, f, x) ==
    IF S = {} THEN 0
    ELSE LET b == CHOOSE c \in S : TRUE
         IN  ReadPair(b, og)[f][x] + SumOver(S \ {b}, og, f, x)

RECURSIVE SumAbsOver(_, _, _, _)
SumAbsOver(S, og, f, x) ==
    IF S = {} THEN 0
    ELSE LET b == CHOOSE c \in S : TRUE
         IN  Abs(ReadPair(b, og)[f][x]) + SumAbsOver(S \ {b}, og, f, x)

\* |computed - exact| <= gamma(k) * sum|x_i| with gamma(k) = k*u / (1 - k*u),
\* u = 2^-MantBits the unit roundoff and k the number of rounded additions
WithinRounding(computed, exact, sumAbs, k) ==
    /\ k < Pow2(MantBits)
    /\ Abs(computed - exact) * (Pow2(MantBits) - k) <= k * sumAbs

\* C5 (amended): for every order of the micrograph list the merged sums of a
\* group agree up to floating-point rounding: each pixel of each sum is within
\* the rounding bound of the exact sum of the pairs merged, and with at most
\* two contributing micrographs the sums are those of the ascending order.
C5_MergeSameUpToRounding ==
    Fitted =>
        \A og \in Groups :
            LET S == Contributing(og)
                n == Cardinality(S)
            IN  /\ \A f \in Parts, x \in Pixels :
                      WithinRounding(acc[og].sum[f][x], SumOver(S, og, f, x),
                                     SumAbsOver(S, og, f, x),
                                     IF n = 0 THEN 0 ELSE n - 1)
                /\ n <= 2 => acc[og].sum = Merge(IdentityOrder, og).sum

C5_Witness ==
    /\ Fitted
    /\ fitOrder # IdentityOrder
    /\ \E og \in Groups :
          /\ Cardinality(Contributing(og)) >= 3
          /\ acc[og].sum # Merge(IdentityOrder, og).sum

\* the contributing micrographs in the order of the list given to the fit
RECURSIVE PresentInOrder(_, _, _)
PresentInOrder(mdts, og, i) ==
    IF i = 0 THEN <<>>
    ELSE IF PairExists(mdts[i], og)
         THEN Append(PresentInOrder(mdts, og, i - 1), mdts[i])
         ELSE PresentInOrder(mdts, og, i - 1)

RECURSIVE SumPairs(_, _, _)
SumPairs(bs, og, i) ==
    IF i = 0 THEN ZeroAcc
    ELSE AddAccInto(SumPairs(bs, og, i - 1), ReadPair(bs[i], og))

\* C9: after parametricFit no error is raised; a micrograph whose pair for a
\* group is missing adds nothing to the group's sums; a group without any
\* pair is unused, its row is as it was before the fit, and every group with
\* a pair has been fitted.
C9_MissingPairsSkippedUnusedGroupsLeft ==
    Fitted =>
        /\ err = "none"
        /\ \A og \in Groups :
              LET bs == PresentInOrder(fitOrder, og, Len(fitOrder))
              IN  /\ acc[og].sum = SumPairs(bs, og, Len(bs))
                  /\ acc[og].used = (bs # <<>>)
                  /\ bs = <<>> => optOut[og] = UnsetRow
                  /\ bs # <<>> => optOut[og] = FitRow(acc[og].sum)

C9_Witness ==
    /\ Fitted
    /\ \E og \in Groups :
          /\ Contributing(og) = {}
          /\ optOut[og] = UnsetRow
          /\ \E g2 \in Groups :
                /\ g2 > og
                /\ optOut[g2].fitted
                /\ Contributing(g2) # Batches

\* C10: a particle table naming an undefined optics group is refused as a
\* fatal error before anything is accumulated: no processMicrograph call is
\* ever made, and no checkpoint file ever written, for a micrograph with a
\* particle of an undefined group.
C10_NoAccumulationWithUndefinedGroup ==
    /\ \A b \in Batches :
          (calls[b] > 0 \/ pc[b] # Idle \/ \E og \in Groups : ~PairAbsent(b, og))
              => findUndefinedOptGroups(mdt[b]) = {}
    /\ err = "undefined_groups" =>
          /\ ~loaded
          /\ \A b \in Batches : calls[b] = 0 /\ pc[b] = Idle
          /\ \A f \in FileNames : store[f].st = "absent"

C10_Witness == err = "undefined_groups"

\* the files of micrograph b
FilesOf(b) == {f \in FileNames : f[1] = getOutputFilenameRoot(b)}

\* C8: a step of the call for one micrograph leaves every file of every
\* other micrograph as it is, and once the calls for all micrographs have
\* returned the store is the one of the calls run one after another.
C8_ConcurrentBatchesWriteDisjointFiles ==
    /\ [][\A b \in Batches :
            pc'[b] = pc[b] => \A f \in FilesOf(b) : store'[f] = store[f]]_vars
    /\ []((\A b \in Batches : pc[b].st = "done") =>
            \A b \in Batches, og \in Groups :
                IF og \in PresentGroups(b)
                THEN PairComplete(b, og) /\ ReadPair(b, og) = ExpectedPair(b, og)
                ELSE PairAbsent(b, og))

C8_Witness ==
    \E a, b \in Batches :
        /\ a # b
        /\ pc[a].st = "open" /\ pc[b].st = "open"
        /\ PresentGroups(a) \cap PresentGroups(b) # {}
        /\ \E og \in PresentGroups(a) : PairComplete(a, og)

ParDone == ptable # <<>> /\ pdone = 1..Len(ptable) /\ Len(sums) = ParCC

OneWorker == [p \in 1..MaxPart |-> 0]

\* C6 as stated: the pair of every group is the one a single worker computes.
C6_PairSameForEveryWorkerCount ==
    ParDone =>
        \A ci \in 0..(ParCC - 1) : sums[ci + 1] = BatchPair(ptable, 1, OneWorker, ci)

\* the particles of the ci-th group present
ParticlesOf(tbl, ci) ==
    {p \in 1..Len(tbl) : tbl[p].og = getOptGroupsPresent(tbl)[ci + 1]}

RECURSIVE ExactOver(_, _, _, _)
ExactOver(S, tbl, f, x) ==
    IF S = {} THEN 0
    ELSE LET p == CHOOSE q \in S : TRUE
         IN  Contribution(tbl[p].kind)[f][x] + ExactOver(S \ {p}, tbl, f, x)

RECURSIVE AbsOver(_, _, _, _)
AbsOver(S, tbl, f, x) ==
    IF S = {} THEN 0
    ELSE LET p == CHOOSE q \in S : TRUE
         IN  Abs(Contribution(tbl[p].kind)[f][x]) + AbsOver(S \ {p}, tbl, f, x)

\* C6 (amended): for every worker count and every assignment of the particles
\* to the workers the pair of a group is the same up to floating-point
\* rounding: every pixel is within the rounding bound of the exact sum of the
\* group's particle contributions, and for a group of at most two particles
\* the pair is the one a single worker computes.
C6_PairSameUpToRounding ==
    ParDone =>
        \A ci \in 0..(ParCC - 1) :
            LET S == ParticlesOf(ptable, ci)
                m == Cardinality(S)
            IN  /\ \A f \in Parts, x \in Pixels :
                      WithinRounding(sums[ci + 1][f][x], ExactOver(S, ptable, f, x),
                                     AbsOver(S, ptable, f, x), m - 1)
                /\ m <= 2 => sums[ci + 1] = BatchPair(ptable, 1, OneWorker, ci)

C6_Witness ==
    /\ ParDone
    /\ pn >= 2
    /\ \E ci \in 0..(ParCC - 1) : sums[ci + 1] # BatchPair(ptable, 1, OneWorker, ci)

\* C7: during the parallel loop an accumulator is added to by no worker but
\* the one that owns it (slot cc*threadnum + ci belongs to threadnum), so no
\* two workers add to the same accumulator; the reduction reads the
\* accumulators only when every particle's loop body has run.
C7_WriteIsolation ==
    ptable # <<>> =>
        /\ \A slot \in DOMAIN writers :
              /\ writers[slot] \subseteq {SlotOwner(ParCC, slot)}
              /\ Cardinality(writers[slot]) <= 1
        /\ sums # <<>> => pdone = 1..Len(ptable)

C7_Witness ==
    /\ sums # <<>>
    /\ ParCC >= 2
    /\ \E s1, s2 \in DOMAIN writers :
          writers[s1] # {} /\ writers[s2] # {} /\ writers[s1] # writers[s2]

\* The pair the file-level model writes is the pair the worker-level model
\* reduces.
ParAgreesWithBatchPair ==
    ParDone => \A ci \in 0..(ParCC - 1) : sums[ci + 1] = BatchPair(ptable, pn, psched, ci)

\* --------------------------------------------------- the fit of a group
Passed(og) == groupSums # <<>> /\ og <= fog

\* the group has pairs but no pixel of it has weight in the fit
DegenerateGroup(og) ==
    /\ groupSums[og].used
    /\ SingularSystem(FitWeight(groupSums[og].sum, wgh0, ring))

\* C11: a group whose fit system is degenerate (pairs exist, the fit weight
\* is zero at every pixel) is skipped: the fit does not end in an error, no
\* tilt or coefficient value is written for the group, and every other used
\* group is fitted as it is without the degenerate group.
C11_DegenerateGroupSkipped ==
    groupSums # <<>> =>
        /\ ferr = "none"
        /\ \A og \in 1..fog :
              IF DegenerateGroup(og) THEN optRows[og] = UnsetFitRow
              ELSE groupSums[og].used =>
                      optRows[og] = RowAfterFit(UnsetFitRow, groupSums[og].sum,
                                                aberr_n_max, wgh0, ring)

\* the sums with the complex value removed wherever the weight is not > 0
Scrubbed(sum) ==
    [re |-> [x \in Pixels |-> IF sum.w[x] > 0 THEN sum.re[x] ELSE 0],
     im |-> [x \in Pixels |-> IF sum.w[x] > 0 THEN sum.im[x] ELSE 0],
     w  |-> sum.w]

\* C13: the row written for a group is the row written for the sums that
\* have zero at every pixel without weight: whatever complex value the merged
\* sums hold at a pixel whose weight is not > 0, the fit output is the same.
C13_ZeroWeightPixelsDoNotReachTheFit ==
    \A og \in Groups :
        (Passed(og) /\ groupSums[og].used) =>
            optRows[og] = RowAfterFit(UnsetFitRow, Scrubbed(groupSums[og].sum),
                                      aberr_n_max, wgh0, ring)

C13_Witness ==
    \E og \in Groups :
        /\ Passed(og) /\ groupSums[og].used
        /\ PlanarModel(aberr_n_max)
        /\ ~DegenerateGroup(og)
        /\ \E x \in Pixels :
              /\ groupSums[og].sum.w[x] = 0
              /\ groupSums[og].sum.re[x] # 0
              /\ wgh0[x] # 0 /\ x \notin ring
        /\ optRows[og].writes = 1

\* C18: below degree 3 the row of a fitted group gets the tilt of the
\* nonlinear refinement started from the linear tilt/shift estimate and no
\* coefficient vector; from degree 3 on it gets the refined coefficient
\* vector, started from the linear coefficient estimate, and the tilt derived
\* from that vector.  Every fitted group's row is written once, and the row
\* of a group that was not fitted is not written.
C18_ModelChosenByDegree ==
    groupSums # <<>> =>
        \A og \in Groups :
            IF og <= fog /\ groupSums[og].used
            THEN LET row == optRows[og]
                 IN  /\ row.writes = 1
                     /\ aberr_n_max < 3 =>
                           /\ row.tilt.fn = "optimizeTilt"
                           /\ row.tilt.start.fn = "fitTiltShift"
                           /\ row.coeffs = NoValue
                     /\ aberr_n_max >= 3 =>
                           /\ row.coeffs.fn = "optimiseOddZernike"
                           /\ row.coeffs.start.fn = "fitOddZernike"
                           /\ row.coeffs.n = aberr_n_max
                           /\ row.coeffs.start.n = aberr_n_max
                           /\ row.tilt = extractTilt(row.coeffs)
            ELSE optRows[og] = UnsetFitRow

C18_Witness ==
    /\ groupSums # <<>>
    /\ fog = NumGroups
    /\ aberr_n_max = 3
    /\ \A og \in Groups : groupSums[og].used /\ optRows[og].coeffs # NoValue

\* C19: with the debug flag off the fit writes no image.
C19_NoImageWithoutDebug ==
    (groupSums # <<>> /\ ~debug) => imageLog = {}

\* ------------------------------------------------- calls before init()
\* C12: a call of processMicrograph, parametricFit or isFinished before
\* init() ends in the not-initialized error and nothing else: no file is
\* read into the sums or written, no row of the output table and no answer
\* changes while the estimator is not initialised; and once init() has run
\* the not-initialized error is never raised.
C12_CallsBeforeInitAbortAtOnce ==
    /\ [][(~ready /\ stops' = stops) =>
            /\ UNCHANGED <<store, acc, optOut, fitOrder, pc, calls, allDone>>
            /\ (err' # err /\ loaded) => err' = "not_initialized"]_vars
    /\ [](err = "not_initialized" => ~ready)
    /\ [][ready => err' # "not_initialized"]_vars

C12_Witness ==
    /\ err = "not_initialized"
    /\ \E f \in FileNames : store[f].st = "complete"

\* ------------------------------------------------- the correction cache
CacheKeys == CacheKinds \X Groups \X Boxes
EntryOf(k) == CacheOf(k[1])[k[2]][k[3]]

\* C14: an entry that is present stays as it is in every step, whatever is
\* called and whatever coefficients change (so it is the image computed at
\* the first call for its key); a call returns the entry of its key; and a
\* call changes the entry of no other key.
C14_EntriesComputedOnceAndKept ==
    /\ [][\A k \in CacheKeys : EntryOf(k) # NoImage => EntryOf(k)' = EntryOf(k)]_vars
    /\ [][callers' # callers =>
            \A k \in CacheKeys :
                IF k = <<callers'[1].kind, callers'[1].g, callers'[1].s>>
                THEN callers'[1].img = EntryOf(k)' /\ callers'[1].img # NoImage
                ELSE EntryOf(k)' = EntryOf(k)]_vars

\* a call returns a cached image that differs from what the group's present
\* coefficients give, while another key of the group holds a newer image
C14_Witness ==
    /\ callers # <<>>
    /\ callers[1].st = "returned" /\ ~callers[1].computed
    /\ callers[1].img #
          ComputeImage(callers[1].kind, callers[1].g, callers[1].s,
                       CoeffsOf(callers[1].kind, callers[1].g))
    /\ \E s \in Boxes :
          /\ s # callers[1].s
          /\ CacheOf(callers[1].kind)[callers[1].g][s] =
                ComputeImage(callers[1].kind, callers[1].g, s,
                             CoeffsOf(callers[1].kind, callers[1].g))

KeyOf(c) == <<c.kind, c.g, c.s>>
ValueOf(k) == ComputeImage(k[1], k[2], k[3], CoeffsOf(k[1], k[2]))

C16_SortRenumbersAllAtOnce ==
    opticsIds # <<>> =>
        /\ \A r, q \in DOMAIN opticsIds : opticsIds[r] = opticsIds[q] => r = q
        /\ \A p \in DOMAIN partOg : RowOf(opticsIds, partOg[p]) = partRow[p]
        /\ opticsIds # idsBefore =>
              /\ opticsGroupsSorted
              /\ \A p \in DOMAIN partOg :
                    partOg[p] = TranslatedGroup(idsBefore, idsBefore[partRow[p]])
              /\ \A a, b \in DOMAIN idsBefore :
                    TranslatedGroup(idsBefore, idsBefore[a]) =
                        TranslatedGroup(idsBefore, idsBefore[b]) => a = b

\* an unsorted table with a missing id was sorted and particles of both
\* groups were renumbered
C16_Witness ==
    /\ opticsIds # <<>>
    /\ opticsIds # idsBefore
    /\ opticsGroupsSorted
    /\ \E r \in DOMAIN idsBefore : idsBefore[r] > NumGroups
    /\ \E p, q \in DOMAIN partOg :
          /\ partOg[p] # partOg[q]
          /\ idsBefore[partRow[p]] # partOg[p]
          /\ idsBefore[partRow[q]] # partOg[q]

\* C17: whenever a processMicrograph call for a micrograph has returned,
\* isFinished is true for it: every optics group present has its three
\* files; and as no step removes a file, isFinished stays true in every
\* later step, also while the micrograph is processed again.
C17_FinishedOnceReturned ==
    /\ [](\A b \in Batches :
            (loaded /\ pc[b].st = "done") =>
                /\ isFinished(b)
                /\ \A og \in PresentGroups(b) : PairExists(b, og))
    /\ [][\A b \in Batches : (loaded /\ isFinished(b)) => isFinished(b)']_vars

C17_Witness ==
    /\ loaded
    /\ \E b, b2 \in Batches :
          /\ b # b2
          /\ pc[b].st = "done" /\ isFinished(b)
          /\ Cardinality(PresentGroups(b)) >= 2
          /\ pc[b2].st = "open" /\ calls[b2] >= 2

\* --------------------------------------------------- convert_to_tiff
\* C20: with --only_do_unfinished a movie whose TIFF exists when
\* processOneMovie begins keeps that TIFF as it is at every moment of the
\* call, whatever the MRC mode; and a movie without a TIFF has, when the call
\* has returned from a conversion, a complete TIFF.
C20_OnlyUnfinishedMoviesConverted ==
    (tpc # "off" /\ only_do_unfinished) =>
        /\ tiffBefore.st # "absent" => tiff = tiffBefore
        /\ (tiffBefore.st = "absent" /\ tpc = "done" /\ ~do_estimate) =>
              (tiff.st = "complete" /\ tiff.frames = MaxFrames)

\* ------------------------------------------- the particles of one call
\* the contributions of the particles S of the table, added one after the
\* other in ascending order to an accumulator that starts from zero
RECURSIVE AddedInOrder(_, _)
AddedInOrder(tbl, S) ==
    IF S = {} THEN ZeroAcc
    ELSE LET m == CHOOSE q \in S : \A r \in S : r <= q
         IN  AddAccInto(AddedInOrder(tbl, S \ {m}), Contribution(tbl[m].kind))

\* the particles of group g that worker t has among the particles S
OwnParticles(tbl, sch, S, t, g) == {p \in S : sch[p] = t /\ tbl[p].og = g}

\* the sum over the workers 0..t of what each added for group g
RECURSIVE OwnGroupSum(_, _, _, _)
OwnGroupSum(tbl, sch, t, g) ==
    IF t < 0 THEN ZeroAcc
    ELSE AddAccInto(OwnGroupSum(tbl, sch, t - 1, g),
                    AddedInOrder(tbl, OwnParticles(tbl, sch, 1..Len(tbl), t, g)))

\* C21: in processMicrograph every particle contributes exactly once and only
\* to the accumulator of its own optics group: at every moment of the loop
\* the accumulator of (worker, group) holds, from zero, the contributions of
\* exactly the particles of that group the worker has run; the pair of a
\* group is the sum of exactly the contributions of its particles; and there
\* are pairs only for the groups that have a particle in the batch.
C21_EachParticleOnceToItsOwnGroup ==
    ptable # <<>> =>
        LET optGroups == getOptGroupsPresent(ptable)
        IN  /\ \A t \in 0..(pn - 1), i \in 1..Len(optGroups) :
                  xyAcc[ParCC * t + (i - 1)] =
                      AddedInOrder(ptable,
                                   OwnParticles(ptable, psched, pdone, t, optGroups[i]))
            /\ Len(sums) <= Len(optGroups)
            /\ \A i \in 1..Len(optGroups) :
                  \E p \in 1..Len(ptable) : ptable[p].og = optGroups[i]
            /\ \A i \in 1..Len(sums) :
                  sums[i] = OwnGroupSum(ptable, psched, pn - 1, optGroups[i])

C21_Witness ==
    /\ ParDone
    /\ ParCC = 2
    /\ pn = 2
    /\ \E p, q \in 1..Len(ptable) :
          /\ ptable[p].og = ptable[q].og
          /\ psched[p] # psched[q]
    /\ \E p, q \in 1..Len(ptable) :
          /\ ptable[p].og # ptable[q].og
          /\ psched[p] = psched[q]

\* ------------------------------------------- the checkpoint file names
\* the (micrograph, group id) whose processMicrograph wrote a file of the name
WritersOf(name) ==
    {w \in writtenFor : \E k \in 1..3 : WrittenName(w[1], w[2], k) = name}

\* C22: with sorted optics groups the three operations use the same names for
\* the same (micrograph, group): every name parametricFit reads for row g-1
\* of a micrograph was written for group g of that micrograph and for no
\* other; every file that existed when parametricFit ran was read for some
\* row; and isFinished tests for a micrograph exactly the names
\* processMicrograph writes for it.
C22_SameNamesInWriteReadAndTest ==
    /\ \A og \in OptRows : \A name \in fitReads[og] :
          /\ WritersOf(name) # {}
          /\ \A w \in WritersOf(name) : w[2] = og + 1 /\ name[1] = getOutputFilenameRoot(w[1])
    /\ fitSaw = UNION {fitReads[og] : og \in OptRows}
    /\ tested.b # 0 =>
          /\ tested.names =
                {WrittenName(tested.b, g, k) : g \in nameTables[tested.b], k \in 1..3}
          /\ tested.value =>
                \A g \in nameTables[tested.b] : <<tested.b, g>> \in writtenFor

C22_Witness ==
    /\ fitReads[MaxOptGroups - 1] # {}
    /\ fitReads[0] # {}
    /\ \E b \in Batches : \E c \in Batches :
          /\ <<b, 1>> \in writtenFor
          /\ <<c, MaxOptGroups>> \in writtenFor
    /\ tested.value

\* ------------------------------------ parametricFit, invoked repeatedly
\* the pair of (b, og) in the store st
PairIn(st, b, og) ==
    [f \in Parts |-> st[FileName(b, og, CHOOSE k \in 1..3 : FilePart[k] = f)].img]

\* the micrographs of the list whose pair for og is in the store st
RECURSIVE PresentIn(_, _, _, _)
PresentIn(st, mdts, og, i) ==
    IF i = 0 THEN <<>>
    ELSE IF \A k \in 1..3 : st[FileName(mdts[i], og, k)].st # "absent"
         THEN Append(PresentIn(st, mdts, og, i - 1), mdts[i])
         ELSE PresentIn(st, mdts, og, i - 1)

\* their pairs added one after the other to a zero accumulator
RECURSIVE SumFromZero(_, _, _, _)
SumFromZero(st, bs, og, i) ==
    IF i = 0 THEN ZeroAcc
    ELSE AddAccInto(SumFromZero(st, bs, og, i - 1), PairIn(st, bs[i], og))

\* C23: parametricFit is stateless across invocations and read-only on the
\* checkpoint store: every invocation leaves the store as it found it; the
\* sums it merges for a group are, from zero, the pairs of that group present
\* at that time and nothing else; and two invocations over the same store
\* with the same list leave the same sums and the same rows.
C23_FitReadOnlyAndStateless ==
    \A i \in 1..Len(fitRuns) :
        LET r == fitRuns[i]
        IN  /\ r.after = r.before
            /\ \A og \in Groups :
                  LET bs == PresentIn(r.before, r.order, og, Len(r.order))
                  IN  /\ r.acc[og].sum = SumFromZero(r.before, bs, og, Len(bs))
                      /\ r.acc[og].used = (bs # <<>>)
                      /\ bs # <<>> => r.optOut[og] = FitRow(r.acc[og].sum)
            /\ \A k \in 1..(i - 1) :
                  (fitRuns[k].before = r.before /\ fitRuns[k].order = r.order)
                      => (fitRuns[k].acc = r.acc /\ fitRuns[k].optOut = r.optOut)

C23_Witness ==
    /\ Len(fitRuns) = 2
    /\ fitRuns[1].before # fitRuns[2].before
    /\ \E og \in Groups :
          /\ fitRuns[1].acc[og].used
          /\ fitRuns[2].acc[og].sum # fitRuns[1].acc[og].sum
          /\ Len(PresentIn(fitRuns[2].before, fitRuns[2].order, og, MaxBatch)) >= 2

\* --------------------------------------------------- convert_to_tiff
\* C24: every conversion path writes the frames to fn_tiff.tmp and renames it
\* to fn_tiff only when all frames are written and the file is closed: the
\* final name never refers to a file holding only part of the frames, what is
\* under the final name after a rename is a closed file with all frames, and
\* a conversion ended by an error leaves nothing under a final name that was
\* free before.
C24_FramesGoToTmpThenRename ==
    tpc # "off" =>
        /\ tiff.st # "partial"
        /\ tiff # tiffBefore => (tiff.st = "complete" /\ tiff.frames = MaxFrames)
        /\ (terr # "none" /\ tiffBefore.st = "absent") => tiff.st = "absent"

\* C25: when not estimating the gain, processOneMovie converts the movie by
\* exactly one path chosen by its MRC mode: for mode 0, 1, 6 or 101 no file
\* is ever opened or put under the final name by unnormalise, and for mode 2
\* none by only_compress.
C25_OnePathByMode ==
    (tpc # "off" /\ ~do_estimate) =>
        /\ mrc_mode \in ShortModes \cup ByteModes =>
              (tmp.by # "unnormalise" /\ tiff.by # "unnormalise")
        /\ mrc_mode = 2 => tiff.by # "only_compress"

\* --------------------------------------------- the gain estimate
\* C26: a pixel whose success count has reached thresh_reliable stays
\* reliable (count >= thresh_reliable) for as long as every later non-zero
\* observation is consistent with the unchanged gain, over any number of
\* frames and movies; the count is never below -1 and the gain is never
\* above its first value.
C26_ReliablePixelStaysReliable ==
    gain # 0 =>
        /\ steady => defects >= ThreshReliable
        /\ defects >= -1
        /\ gain <= GainUnset

====
